---------------------------- MODULE Spec2Model ----------------------------
(***************************************************************************)
(* A model of statsgod (src/statsgod.go): the metric store, the request    *)
(* handlers that call MetricStore.Set, the flush loop (flushMetrics), the  *)
(* export-queue worker (handleGraphiteQueue) and the export goroutines     *)
(* (sendToGraphite).                                                       *)
(*                                                                         *)
(* Goroutines are interleaved at the points where they touch shared state: *)
(* the store's map, the store's mutex, the channel graphitePipeline.       *)
(* Metric values are float32 in the program; the model uses small integers *)
(* (on which float32 addition is exact) and keeps every quotient as the    *)
(* pair <<numerator, denominator>>.                                        *)
(***************************************************************************)
EXTENDS Integers, Sequences, FiniteSets, Bags, TLC

(***************************************************************************)
(* Bounds of the model.                                                    *)
(***************************************************************************)
\* Number of client connections (handleRequest goroutines) when the flush
\* loop runs, and the total number of lines they send.
NumClients == 1
MaxSets == 2
\* Number of client connections and total number of lines when only the
\* clients run (the flush ticker never fires).
NumTasks == 2
MaxLines == 2
\* Number of ticks of the flush ticker.
MaxTicks == 2
\* Largest value of the clock (time.Now().Unix()), starting at 0.
MaxTime == 1
\* Capacity of the channel graphitePipeline (MAXREQS = 1024 in the program).
MAXREQS == 2
\* Largest number of sendToGraphite goroutines alive at once.
MaxExports == 1
\* Largest number of samples of a timer whose statistics are computed alone.
MaxSamples == 5

\* The flush interval in seconds (the default of the flag flushTime).
FlushSeconds == 10
\* The default of the flag percentile.
DefaultPercentile == 90

Tasks == 1..NumTasks
Clients == 1..NumClients
Keys == {"a", "b"}
\* The value tokens of a line: the texts of numbers, and one text that
\* ParseFloat rejects.
ValTokens == {"-1", "1", "abc"}
\* The type tokens of a line: the three known ones and an unknown one.
TypeTokens == {"c", "g", "ms", "x"}
\* The values of the flag percentile the statistics are computed with.
Percentiles == {0, 10, 50, 90, 100}
\* The values of the samples of a timer whose statistics are computed alone.
SampleVals == 1..MaxSamples

\* The zero value of the struct Metric (what a map read of an absent key gives).
\* allValues is a slice: arr names the array that backs it (0: none, the nil
\* slice), and the field allValues holds what the slice shows of that array.
\* A copy of a Metric copies the slice, not the array.
ZeroMetric ==
    [key |-> "", metricType |-> "", totalHits |-> 0, lastValue |-> 0,
     allValues |-> <<>>, arr |-> 0, flushTime |-> 0]

\* The arguments and locals of a goroutine that is not inside Set.
NoArgs == [key |-> "", metricType |-> "", val |-> 0, err |-> FALSE]
NoLocal == [m |-> ZeroMetric, existingMetric |-> FALSE]

\* No goroutine holds the mutex.
NoTask == 0
\* The process is running.
Running == "running"
\* The process died of an unrecovered panic in a goroutine.
Panicked == "panic: index out of range"
\* The process died of the runtime's detection of unsynchronised map access.
MapFatal == "fatal error: concurrent map access"

VARIABLES
    metrics,     \* store.metrics: a function from the keys present to Metric
    mu,          \* store.mu: the task holding the exclusive lock, or NoTask
    pc,          \* pc[t]: where handleRequest goroutine t stands
    args,        \* args[t]: the arguments of t's call of Set, and the err
                 \*   handleRequest holds from ParseFloat when it calls it
    local,       \* local[t]: Set's locals m (once updated) and existingMetric
    nlines,      \* number of lines read so far (bounded by MaxLines)
    fpc,         \* where flushMetrics stands
    fvisited,    \* keys the running range loop has produced
    fmust,       \* keys the running range loop still has to produce
    fmetric,     \* the loop variable metric of flushMetrics
    ticks,       \* number of ticks so far (bounded by MaxTicks)
    now,         \* the clock, in seconds
    queue,       \* the channel graphitePipeline
    wpc,         \* where handleGraphiteQueue stands
    wmetric,     \* the local metric of handleGraphiteQueue
    exports,     \* the bag of arguments of the running sendToGraphite goroutines
    sink,        \* the lines Graphite received from the last sendToGraphite
    percentile,  \* the flag percentile
    crashed,     \* Running, or how the process died
    calls,       \* history: calls[k] is the values of the Set calls on k, in order
    callers,     \* history: callers[k] is the tasks and metric types of those calls
    lastSet,     \* history: lastSet[k] is the value of the last Set applied to k
    snap,        \* history: snap[c][k] is the record cycle c captured for k,
                 \*   while no later Set on k has been applied
    qcyc,        \* history: qcyc[i] is the cycle that enqueued queue[i]
    wcyc         \* history: the cycle that enqueued wmetric

vars == <<metrics, mu, pc, args, local, nlines, fpc, fvisited, fmust, fmetric,
          ticks, now, queue, wpc, wmetric, exports, sink, percentile, crashed,
          calls, callers, lastSet, snap, qcyc, wcyc>>

storeVars == <<metrics, mu>>
taskVars == <<pc, args, local, nlines>>
flushVars == <<fpc, fvisited, fmust, fmetric, ticks, now>>
workerVars == <<wpc, wmetric, wcyc>>
exportVars == <<exports, sink>>
setHistory == <<calls, callers>>

(***************************************************************************)
(* The protocol: handleRequest's parsing of one line.                      *)
(***************************************************************************)
\* A line as handleRequest sees it: whether the regexp (.*)\:(.*)\|(.*)
\* matches, and the three submatches.
Lines ==
    [matches : BOOLEAN, metric : Keys, val : ValTokens, short : TypeTokens]

\* The lines of clients that send what the protocol asks for.
GoodLines ==
    [matches : {TRUE}, metric : Keys, val : {"1"}, short : {"c", "g", "ms"}]

\* shortTypeToLong: the long name of a type token, and whether it is known.
ShortTypeToLong(short) ==
    CASE short = "c" -> [long |-> "counter", err |-> FALSE]
      [] short = "g" -> [long |-> "gauge", err |-> FALSE]
      [] short = "ms" -> [long |-> "timer", err |-> FALSE]
      [] OTHER -> [long |-> "unknown", err |-> TRUE]

\* strconv.ParseFloat(val, 32): the value is 0 when the text is no number.
ParseFloat(val) ==
    CASE val = "-1" -> [value |-> -1, err |-> FALSE]
      [] val = "1" -> [value |-> 1, err |-> FALSE]
      [] OTHER -> [value |-> 0, err |-> TRUE]

(***************************************************************************)
(* MetricStore.Set.                                                        *)
(***************************************************************************)
\* A lock that does not exclude: Set without s.mu.Lock().
LockNotExclusive(t) == TRUE

\* s.mu.Lock() returns only when no other goroutine holds the lock.
LockAcquired(t) == mu = NoTask

\* m, existingMetric := s.metrics[key]
MapRead(key) ==
    IF key \in DOMAIN metrics
    THEN [m |-> metrics[key], existingMetric |-> TRUE]
    ELSE [m |-> ZeroMetric, existingMetric |-> FALSE]

\* A switch in which a counter replaces its value as a gauge does.
NewLastValueReplace(old, metricType, val) ==
    CASE metricType = "gauge" -> val
      [] metricType = "counter" -> val
      [] metricType = "timer" -> val
      [] OTHER -> old

\* The switch on metricType of an existing metric.
NewLastValue(old, metricType, val) ==
    CASE metricType = "gauge" -> val
      [] metricType = "counter" -> old + val
      [] metricType = "timer" -> val
      [] OTHER -> old

\* A Set that counts a hit of an existing metric without keeping its value.
UpdatedNoAppend(m, existingMetric, key, metricType, val) ==
    IF ~existingMetric
    THEN [m EXCEPT !.key = key, !.totalHits = 1, !.lastValue = val,
                   !.metricType = metricType,
                   !.allValues = Append(m.allValues, val)]
    ELSE [m EXCEPT !.totalHits = m.totalHits + 1,
                   !.lastValue = NewLastValue(m.lastValue, metricType, val)]

\* The record Set stores: the body of Set from the if to the append.
Updated(m, existingMetric, key, metricType, val) ==
    IF ~existingMetric
    THEN [m EXCEPT !.key = key, !.totalHits = 1, !.lastValue = val,
                   !.metricType = metricType,
                   !.allValues = Append(m.allValues, val)]
    ELSE [m EXCEPT !.totalHits = m.totalHits + 1,
                   !.lastValue = NewLastValue(m.lastValue, metricType, val),
                   !.allValues = Append(m.allValues, val)]

\* The capacity append gives a []float32 that grew to n values one by one:
\* the next size class, 2, 4, 8, ...
Cap(n) == IF n = 0 THEN 0 ELSE IF n <= 2 THEN 2 ELSE IF n <= 4 THEN 4 ELSE 8

\* The arrays that some copy of a Metric refers to.
LiveArrs ==
    {metrics[k].arr : k \in DOMAIN metrics}
    \cup {queue[i].arr : i \in DOMAIN queue}
    \cup {m.arr : m \in BagToSet(exports)}
    \cup {local[t].m.arr : t \in Tasks}
    \cup {fmetric.arr, wmetric.arr}

\* The array append allocates: one that no copy refers to.
FreshArr == CHOOSE r \in 1..(Cardinality(LiveArrs) + 1) : r \notin LiveArrs

\* m.allValues = append(m.allValues, val) writes into the array of the slice
\* when it has room, and into a new array when it is full.
AppendArr(m) ==
    IF Len(m.allValues) = Cap(Len(m.allValues)) THEN FreshArr ELSE m.arr

\* Set's locals once it has updated m: the body of Set from the map read to
\* the append, r being what the map read gave.
SetLocals(r, key, metricType, val) ==
    [m |-> [Updated(r.m, r.existingMetric, key, metricType, val)
                EXCEPT !.arr = AppendArr(r.m)],
     existingMetric |-> r.existingMetric]

\* s.metrics[key] = m
MapAssign(key, m) ==
    [k \in DOMAIN metrics \cup {key} |-> IF k = key THEN m ELSE metrics[k]]

\* delete(store.metrics, key)
MapDelete(key) ==
    [k \in DOMAIN metrics \ {key} |-> metrics[k]]

\* Every history of a captured record of key ends when a Set on key is applied.
Forget(key) ==
    [c \in DOMAIN snap |->
        [k \in DOMAIN snap[c] \ {key} |-> snap[c][k]]]

(***************************************************************************)
(* handleRequest: one goroutine per connection.                            *)
(***************************************************************************)
\* conn.Read fails: handleRequest returns.
ReadError(t) ==
    /\ crashed = Running
    /\ pc[t] = "read"
    /\ pc' = [pc EXCEPT ![t] = "closed"]
    /\ UNCHANGED <<storeVars, args, local, nlines, flushVars, queue, qcyc,
                   workerVars, exportVars, percentile, crashed, setHistory, snap, lastSet>>

\* conn.Read gives a line: it is parsed, and Set is called or the line dropped.
ReadLine(t, bound, lines) ==
    /\ crashed = Running
    /\ pc[t] = "read"
    /\ nlines < bound
    /\ nlines' = nlines + 1
    /\ \E line \in lines :
        LET type == ShortTypeToLong(line.short)
            value == ParseFloat(line.val)
        IN  IF ~line.matches
            THEN \* no match: handleRequest returns
                 /\ pc' = [pc EXCEPT ![t] = "closed"]
                 /\ UNCHANGED args
            ELSE IF type.err
            THEN \* unknown type: continue with the next line
                 /\ UNCHANGED <<pc, args>>
            ELSE \* the error of ParseFloat is not acted on: Set is called
                 /\ pc' = [pc EXCEPT ![t] = "lock"]
                 /\ args' = [args EXCEPT ![t] =
                        [key |-> line.metric, metricType |-> type.long,
                         val |-> value.value, err |-> value.err]]
    /\ UNCHANGED <<storeVars, local, flushVars, queue, qcyc, workerVars,
                   exportVars, percentile, crashed, setHistory, snap, lastSet>>

\* Set takes the lock, reads the map and updates its copy of the record.
SetBegin(t) ==
    /\ crashed = Running
    /\ pc[t] = "lock"
    /\ LockAcquired(t)
    /\ mu' = t
    /\ local' = [local EXCEPT ![t] =
                    SetLocals(MapRead(args[t].key), args[t].key,
                              args[t].metricType, args[t].val)]
    /\ pc' = [pc EXCEPT ![t] = "store"]
    /\ IF ticks = 0
       THEN /\ calls' = [calls EXCEPT ![args[t].key] = Append(@, args[t].val)]
            /\ callers' = [callers EXCEPT ![args[t].key] =
                              @ \cup {<<t, args[t].metricType>>}]
       ELSE UNCHANGED setHistory
    /\ UNCHANGED <<metrics, args, nlines, flushVars, queue, qcyc, workerVars,
                   exportVars, percentile, crashed, snap, lastSet>>

\* Set stores its copy in the map and releases the lock.
SetEnd(t) ==
    /\ crashed = Running
    /\ pc[t] = "store"
    /\ metrics' = MapAssign(args[t].key, local[t].m)
    /\ mu' = IF mu = t THEN NoTask ELSE mu
    /\ local' = [local EXCEPT ![t] = NoLocal]
    /\ args' = [args EXCEPT ![t] = NoArgs]
    /\ pc' = [pc EXCEPT ![t] = "read"]
    /\ snap' = Forget(args[t].key)
    /\ lastSet' = [lastSet EXCEPT ![args[t].key] = args[t].val]
    /\ UNCHANGED <<nlines, flushVars, queue, qcyc, workerVars,
                   exportVars, percentile, crashed, setHistory>>

(***************************************************************************)
(* sendToGraphite: the data points of one snapshot.                        *)
(***************************************************************************)
\* A value of the program that is the quotient of two numbers.
Quot(n, d) == <<n, d>>
\* A value of the program that is a number as it stands.
Num(n) == Quot(n, 1)

\* One call of sendSingleMetricToGraphite(key, v, t).
Point(gkey, v, t) == [gkey |-> gkey, value |-> v, time |-> t]

\* sort.Sort(ByFloat32(m.allValues))
Sorted(s) == SortSeq(s, LAMBDA a, b : a < b)

\* The loop that sums the values: sum += value.
RECURSIVE SumSeq(_)
SumSeq(s) == IF s = <<>> THEN 0 ELSE SumSeq(SubSeq(s, 1, Len(s) - 1)) + s[Len(s)]

\* The loop that builds cumulativeValues: it starts as {minValue}, and index
\* idx > 0 appends cumulativeValues[idx-1] + value.
RECURSIVE Cumulative(_)
Cumulative(s) ==
    IF Len(s) <= 1 THEN <<s[1]>>
    ELSE LET c == Cumulative(SubSeq(s, 1, Len(s) - 1))
         IN  Append(c, c[Len(c)] + s[Len(s)])

\* int(math.Floor((((100 - percentile) / 100) * totalHits) + 0.5)).  For the
\* percentiles of the model and fewer than 200 hits the float64 expression has
\* the value of this integer expression.
ThresholdIndex(p, totalHits) == ((100 - p) * totalHits + 50) \div 100

\* numInThreshold := m.totalHits - thresholdIndex
NumInThreshold(p, totalHits) == totalHits - ThresholdIndex(p, totalHits)

\* The points sendToGraphite sends for a gauge and a counter, with the
\* generic point that follows for every type.
BasicPoints(m) ==
    (CASE m.metricType = "gauge" ->
            <<Point(<<"stats.gauges", m.key, "avg_value">>, Num(m.lastValue),
                    m.flushTime)>>
       [] m.metricType = "counter" ->
            <<Point(<<"stats", m.key>>, Quot(m.lastValue, FlushSeconds),
                    m.flushTime),
              Point(<<"stats_counts", m.key>>, Num(m.lastValue), m.flushTime)>>
       [] OTHER -> <<>>)
    \o <<Point(<<m.key>>, Num(m.lastValue), m.flushTime)>>

\* The points of a timer up to min_value; they need allValues[0].
TimerPoints(m) ==
    LET vals == Sorted(m.allValues)
    IN  <<Point(<<"stats.timers", m.key, "avg_value">>,
                Quot(SumSeq(vals), m.totalHits), m.flushTime),
          Point(<<"stats.timers", m.key, "max_value">>,
                Num(vals[Len(vals)]), m.flushTime),
          Point(<<"stats.timers", m.key, "min_value">>,
                Num(vals[1]), m.flushTime)>>

\* The points of a timer that depend on the percentile; they need
\* allValues[numInThreshold-1] and cumulativeValues[numInThreshold-1].
PercentilePoints(m, p) ==
    LET vals == Sorted(m.allValues)
        n == NumInThreshold(p, m.totalHits)
        cum == Cumulative(vals)
    IN  <<Point(<<"stats.timers", m.key, "mean", p>>,
                Quot(cum[n], n), m.flushTime),
          Point(<<"stats.timers", m.key, "upper", p>>,
                Num(vals[n]), m.flushTime),
          Point(<<"stats.timers", m.key, "sum", p>>,
                Num(cum[n]), m.flushTime)>>

\* Whether the index expression allValues[numInThreshold-1] is in range.
IndexInRange(m, p) ==
    LET n == NumInThreshold(p, m.totalHits)
    IN  1 <= n /\ n <= Len(m.allValues)

\* sendToGraphite(m): the points it hands to sendSingleMetricToGraphite, in
\* order, and whether it ends in an index-out-of-range panic.
SendToGraphitePoints(m, p) ==
    IF m.metricType # "timer"
    THEN [points |-> BasicPoints(m), panics |-> FALSE]
    ELSE IF m.allValues = <<>>
    THEN [points |-> BasicPoints(m), panics |-> TRUE]
    ELSE IF ~IndexInRange(m, p)
    THEN [points |-> BasicPoints(m) \o TimerPoints(m), panics |-> TRUE]
    ELSE [points |-> BasicPoints(m) \o TimerPoints(m) \o PercentilePoints(m, p),
          panics |-> FALSE]

\* sendSingleMetricToGraphite dials Graphite for every point and drops the
\* point when the dial fails: what Graphite receives of a run is a
\* subsequence of its points.
RECURSIVE Select(_, _)
Select(points, up) ==
    IF points = <<>> THEN <<>>
    ELSE LET rest == Select(SubSeq(points, 1, Len(points) - 1), up)
         IN  IF Len(points) \in up THEN Append(rest, points[Len(points)])
             ELSE rest

\* The dials that succeed during one run: any of them, or (when not all) the
\* first ones, Graphite staying away once it is away.
Ups(n, all) == IF all THEN SUBSET (1..n) ELSE {1..i : i \in 0..n}

Deliveries(points, all) == {Select(points, up) : up \in Ups(Len(points), all)}

(***************************************************************************)
(* flushMetrics.                                                           *)
(***************************************************************************)
\* What a read of the record of key k can give.  The loop reads the map
\* without the lock: a read that overlaps the map write of a Set on k sees
\* every word as it was before or after that write.
Captures(k) ==
    LET old == metrics[k]
        news == {local[t].m :
                    t \in {u \in Tasks : pc[u] = "store" /\ args[u].key = k}}
    IN  {old} \cup
        UNION {{[key |-> k, metricType |-> ty, totalHits |-> h,
                 lastValue |-> l, allValues |-> a.allValues, arr |-> a.arr,
                 flushTime |-> 0] :
                    ty \in {old.metricType, new.metricType},
                    h \in {old.totalHits, new.totalHits},
                    l \in {old.lastValue, new.lastValue},
                    a \in {old, new}} : new \in news}

\* What the history keeps of a captured record: its type, and for a gauge
\* the value it had.
Summary(m) ==
    [metricType |-> m.metricType,
     lastValue |-> IF m.metricType = "gauge" THEN m.lastValue ELSE 0]

\* case <-flushTicker: a tick starts the range loops over store.metrics.
FlushTick ==
    /\ crashed = Running
    /\ fpc = "tick"
    /\ ticks < MaxTicks
    /\ ticks' = ticks + 1
    /\ fpc' = "range"
    /\ fvisited' = {}
    /\ fmust' = DOMAIN metrics
    /\ calls' = [k \in Keys |-> <<>>]
    /\ callers' = [k \in Keys |-> {}]
    /\ UNCHANGED <<storeVars, taskVars, fmetric, now, queue, qcyc, workerVars,
                   exportVars, percentile, crashed, snap, lastSet>>

\* One iteration of the range loop up to the send: the loop variable gets a
\* copy of an entry the loop has not produced, and the time of the clock.
FlushNext ==
    /\ crashed = Running
    /\ fpc = "range"
    /\ \E k \in DOMAIN metrics \ fvisited :
        /\ \E m \in Captures(k), t \in now..MaxTime :
            /\ now' = t
            /\ fmetric' = [m EXCEPT !.flushTime = t]
        /\ fvisited' = fvisited \cup {k}
        /\ fmust' = fmust \ {k}
        /\ snap' = [snap EXCEPT ![ticks] =
                      [j \in DOMAIN snap[ticks] \cup {k} |->
                          IF j = k THEN Summary(metrics[k]) ELSE snap[ticks][j]]]
    /\ fpc' = "send"
    /\ UNCHANGED <<storeVars, taskVars, ticks, queue, qcyc, workerVars,
                   exportVars, percentile, crashed, setHistory, lastSet>>

\* graphitePipeline <- metric: blocks while the channel is full.
FlushSend ==
    /\ crashed = Running
    /\ fpc = "send"
    /\ Len(queue) < MAXREQS
    /\ queue' = Append(queue, fmetric)
    /\ qcyc' = Append(qcyc, ticks)
    /\ fmetric' = ZeroMetric
    /\ fpc' = "range"
    /\ UNCHANGED <<storeVars, taskVars, fvisited, fmust, ticks, now, workerVars,
                   exportVars, percentile, crashed, setHistory, snap, lastSet>>

\* The range loop ends: every entry that was in the map throughout has been
\* produced (an entry added during the loop may be skipped).
FlushEnd ==
    /\ crashed = Running
    /\ fpc = "range"
    /\ fmust = {}
    /\ fpc' = "tick"
    /\ fvisited' = {}
    /\ UNCHANGED <<storeVars, taskVars, fmust, fmetric, ticks, now, queue, qcyc,
                   workerVars, exportVars, percentile, crashed, setHistory, snap, lastSet>>

(***************************************************************************)
(* handleGraphiteQueue.                                                    *)
(***************************************************************************)
\* A test that deletes counters only.
ShouldDeleteCounter(m) == m.metricType = "counter"

\* if metric.metricType != "gauge"
ShouldDelete(m) == m.metricType # "gauge"

\* metric := <-graphitePipeline; go sendToGraphite(metric)
WorkerRecv ==
    /\ crashed = Running
    /\ wpc = "recv"
    /\ queue # <<>>
    /\ BagCardinality(exports) < MaxExports
    /\ wmetric' = Head(queue)
    /\ wcyc' = Head(qcyc)
    /\ queue' = Tail(queue)
    /\ qcyc' = Tail(qcyc)
    /\ exports' = exports (+) SetToBag({Head(queue)})
    /\ wpc' = "delete"
    /\ UNCHANGED <<storeVars, taskVars, flushVars, sink, percentile, crashed,
                   setHistory, snap, lastSet>>

\* if metric.metricType != "gauge" { delete(store.metrics, metric.key) }
WorkerDelete ==
    /\ crashed = Running
    /\ wpc = "delete"
    /\ IF ShouldDelete(wmetric)
       THEN /\ metrics' = MapDelete(wmetric.key)
            /\ fvisited' = fvisited \ {wmetric.key}
            /\ fmust' = fmust \ {wmetric.key}
       ELSE UNCHANGED <<metrics, fvisited, fmust>>
    /\ wmetric' = ZeroMetric
    /\ wcyc' = 0
    /\ wpc' = "recv"
    /\ UNCHANGED <<mu, taskVars, fpc, fmetric, ticks, now, queue, qcyc,
                   exportVars, percentile, crashed, setHistory, snap, lastSet>>

(***************************************************************************)
(* The sendToGraphite goroutines, and how the process dies.                *)
(***************************************************************************)
\* What the slice of the copy h shows once sendToGraphite(m) has sorted
\* m.allValues (sort.Sort sorts the array in place): when h's slice has the
\* same array, its values are the sorted ones as far as m's slice reaches.
SortedInPlace(h, m) ==
    IF m.metricType = "timer" /\ m.arr # 0 /\ h.arr = m.arr
    THEN [h EXCEPT !.allValues =
            [i \in 1..Len(h.allValues) |->
                IF i <= Len(m.allValues) THEN Sorted(m.allValues)[i]
                ELSE h.allValues[i]]]
    ELSE h

\* One sendToGraphite goroutine runs: it reads its copy of the metric, sorts
\* the array of its samples and writes to the connection to Graphite.  A
\* panic in it ends the process.
SendToGraphite(all) ==
    /\ crashed = Running
    /\ \E m \in BagToSet(exports) :
        LET r == SendToGraphitePoints(m, percentile)
            through(h) == SortedInPlace(h, m)
        IN  /\ exports' = BagOfAll(through, exports (-) SetToBag({m}))
            /\ sink' \in Deliveries(r.points, all)
            /\ crashed' = IF r.panics THEN Panicked ELSE crashed
            /\ metrics' = [k \in DOMAIN metrics |-> through(metrics[k])]
            /\ queue' = [i \in DOMAIN queue |-> through(queue[i])]
            /\ local' = [t \in Tasks |->
                            [local[t] EXCEPT !.m = through(local[t].m)]]
            /\ fmetric' = through(fmetric)
            /\ wmetric' = through(wmetric)
    /\ UNCHANGED <<mu, pc, args, nlines, fpc, fvisited, fmust, ticks, now, qcyc,
                   wpc, wcyc, percentile, setHistory, snap, lastSet>>

\* Two goroutines are about to use the map at once, one of them to write it,
\* and at least one does not hold the lock.
MapRace ==
    LET writing == {t \in Tasks : pc[t] = "store"}
        deleting == wpc = "delete" /\ ShouldDelete(wmetric)
        ranging == fpc = "range"
    IN  \/ writing # {} /\ (deleting \/ ranging)
        \/ deleting /\ ranging

\* The runtime may detect the unsynchronised map access and end the process.
MapRaceFatal ==
    /\ crashed = Running
    /\ MapRace
    /\ crashed' = MapFatal
    /\ UNCHANGED <<storeVars, taskVars, flushVars, queue, qcyc, workerVars,
                   exportVars, percentile, setHistory, snap, lastSet>>

(***************************************************************************)
(* The specifications.                                                     *)
(***************************************************************************)
Init ==
    /\ metrics = << >>
    /\ mu = NoTask
    /\ pc = [t \in Tasks |-> "read"]
    /\ args = [t \in Tasks |-> NoArgs]
    /\ local = [t \in Tasks |-> NoLocal]
    /\ nlines = 0
    /\ fpc = "tick"
    /\ fvisited = {}
    /\ fmust = {}
    /\ fmetric = ZeroMetric
    /\ ticks = 0
    /\ now = 0
    /\ queue = <<>>
    /\ wpc = "recv"
    /\ wmetric = ZeroMetric
    /\ exports = EmptyBag
    /\ sink = <<>>
    /\ percentile = DefaultPercentile
    /\ crashed = Running
    /\ calls = [k \in Keys |-> <<>>]
    /\ callers = [k \in Keys |-> {}]
    /\ lastSet = [k \in Keys |-> 0]
    /\ snap = [c \in 1..MaxTicks |-> << >>]
    /\ qcyc = <<>>
    /\ wcyc = 0

\* The whole program: clients that send well-formed lines, the flush loop,
\* the worker, the exports.
Next ==
    \/ \E t \in Clients : ReadLine(t, MaxSets, GoodLines)
    \/ \E t \in Clients : SetBegin(t)
    \/ \E t \in Clients : SetEnd(t)
    \/ FlushTick
    \/ FlushNext
    \/ FlushSend
    \/ FlushEnd
    \/ WorkerRecv
    \/ WorkerDelete
    \/ SendToGraphite(FALSE)
    \/ MapRaceFatal

Spec == Init /\ [][Next]_vars

\* The clients alone: the behaviours in which the flush ticker never fires.
NextSet ==
    \/ \E t \in Tasks : ReadError(t)
    \/ \E t \in Tasks : ReadLine(t, MaxLines, Lines)
    \/ \E t \in Tasks : SetBegin(t)
    \/ \E t \in Tasks : SetEnd(t)

SpecSet == Init /\ [][NextSet]_vars

\* The whole program with several clients.
NextLive ==
    \/ \E t \in Tasks : ReadLine(t, MaxSets, GoodLines)
    \/ \E t \in Tasks : SetBegin(t)
    \/ \E t \in Tasks : SetEnd(t)
    \/ FlushTick
    \/ FlushNext
    \/ FlushSend
    \/ FlushEnd
    \/ WorkerRecv
    \/ WorkerDelete
    \/ SendToGraphite(FALSE)
    \/ MapRaceFatal

\* The scheduling of the Go runtime: the program does not stop while one of
\* its goroutines can take a step.
Fairness == WF_vars(NextLive)

SpecLive == Init /\ [][NextLive]_vars /\ Fairness

\* The lines of a client that times one thing.
TimerLines ==
    [matches : {TRUE}, metric : {"a"}, val : {"-1", "1"}, short : {"ms"}]

\* The whole program with a client that sends timer values.
NextTimers ==
    \/ \E t \in Clients : ReadLine(t, MaxSets, TimerLines)
    \/ \E t \in Clients : SetBegin(t)
    \/ \E t \in Clients : SetEnd(t)
    \/ FlushTick
    \/ FlushNext
    \/ FlushSend
    \/ FlushEnd
    \/ WorkerRecv
    \/ WorkerDelete
    \/ SendToGraphite(FALSE)
    \/ MapRaceFatal

SpecTimers == Init /\ [][NextTimers]_vars

(***************************************************************************)
(* The statistics of a timer alone: one sendToGraphite goroutine holds the *)
(* snapshot of a timer, as after Sets on one key, a flush and the worker's *)
(* receive and delete.                                                     *)
(***************************************************************************)
\* The sequences over S of length 1 to n.
RECURSIVE SeqsUpTo(_, _)
SeqsUpTo(S, n) ==
    IF n = 0 THEN {}
    ELSE [1..n -> S] \cup SeqsUpTo(S, n - 1)

\* The record the store holds for key after Sets of the given type with the
\* values vals, in order, on a key the store did not hold.
RECURSIVE AfterSets(_, _, _)
AfterSets(key, metricType, vals) ==
    IF Len(vals) = 1
    THEN Updated(ZeroMetric, FALSE, key, metricType, vals[1])
    ELSE Updated(AfterSets(key, metricType, SubSeq(vals, 1, Len(vals) - 1)),
                 TRUE, key, metricType, vals[Len(vals)])

TimerSnapshots ==
    {AfterSets("a", "timer", vals) : vals \in SeqsUpTo(SampleVals, MaxSamples)}

InitStats ==
    /\ metrics = << >>
    /\ mu = NoTask
    /\ pc = [t \in Tasks |-> "read"]
    /\ args = [t \in Tasks |-> NoArgs]
    /\ local = [t \in Tasks |-> NoLocal]
    /\ nlines = 0
    /\ fpc = "tick"
    /\ fvisited = {}
    /\ fmust = {}
    /\ fmetric = ZeroMetric
    /\ ticks = 1
    /\ now = 0
    /\ queue = <<>>
    /\ wpc = "recv"
    /\ wmetric = ZeroMetric
    /\ \E m \in TimerSnapshots : exports = SetToBag({[m EXCEPT !.arr = 1]})
    /\ sink = <<>>
    /\ percentile \in Percentiles
    /\ crashed = Running
    /\ calls = [k \in Keys |-> <<>>]
    /\ callers = [k \in Keys |-> {}]
    /\ lastSet = [k \in Keys |-> 0]
    /\ snap = [c \in 1..MaxTicks |-> << >>]
    /\ qcyc = <<>>
    /\ wcyc = 0

NextStats == SendToGraphite(FALSE)

SpecStats == InitStats /\ [][NextStats]_vars

(***************************************************************************)
(* The export pipeline alone: a flush has enqueued the snapshots of two    *)
(* metrics; the worker and the sendToGraphite goroutines run.              *)
(***************************************************************************)
\* The records the store can hold for key after one or two Sets of one type.
SmallRecords(key) ==
    {[AfterSets(key, ty, vals) EXCEPT !.arr = IF key = "a" THEN 1 ELSE 2] :
        ty \in {"gauge", "counter", "timer"}, vals \in SeqsUpTo({1}, 2)}

InitExport ==
    /\ \E ma \in SmallRecords("a"), mb \in SmallRecords("b") :
        /\ metrics = [k \in {"a", "b"} |-> IF k = "a" THEN ma ELSE mb]
        /\ queue = <<ma, mb>>
        /\ snap = [c \in 1..MaxTicks |->
                     IF c = 1
                     THEN [k \in {"a", "b"} |->
                             Summary(IF k = "a" THEN ma ELSE mb)]
                     ELSE << >>]
        /\ lastSet = [k \in Keys |->
                        IF k = "a" THEN ma.allValues[Len(ma.allValues)]
                        ELSE mb.allValues[Len(mb.allValues)]]
    /\ mu = NoTask
    /\ pc = [t \in Tasks |-> "read"]
    /\ args = [t \in Tasks |-> NoArgs]
    /\ local = [t \in Tasks |-> NoLocal]
    /\ nlines = 0
    /\ fpc = "tick"
    /\ fvisited = {}
    /\ fmust = {}
    /\ fmetric = ZeroMetric
    /\ ticks = 1
    /\ now = 0
    /\ qcyc = <<1, 1>>
    /\ wpc = "recv"
    /\ wmetric = ZeroMetric
    /\ wcyc = 0
    /\ exports = EmptyBag
    /\ sink = <<>>
    /\ percentile \in Percentiles
    /\ crashed = Running
    /\ calls = [k \in Keys |-> <<>>]
    /\ callers = [k \in Keys |-> {}]

NextExport ==
    \/ WorkerRecv
    \/ WorkerDelete
    \/ SendToGraphite(TRUE)

SpecExport == InitExport /\ [][NextExport]_vars

(***************************************************************************)
(* A flush of a store that holds two metrics: clients have set a counter   *)
(* and a gauge before the first tick, and go on sending lines.             *)
(***************************************************************************)
InitFlush ==
    /\ metrics = [k \in {"a", "b"} |->
                    IF k = "a"
                    THEN [AfterSets("a", "counter", <<1>>) EXCEPT !.arr = 1]
                    ELSE [AfterSets("b", "gauge", <<1>>) EXCEPT !.arr = 2]]
    /\ mu = NoTask
    /\ pc = [t \in Tasks |-> "read"]
    /\ args = [t \in Tasks |-> NoArgs]
    /\ local = [t \in Tasks |-> NoLocal]
    /\ nlines = 0
    /\ fpc = "tick"
    /\ fvisited = {}
    /\ fmust = {}
    /\ fmetric = ZeroMetric
    /\ ticks = 0
    /\ now = 0
    /\ queue = <<>>
    /\ wpc = "recv"
    /\ wmetric = ZeroMetric
    /\ exports = EmptyBag
    /\ sink = <<>>
    /\ percentile = DefaultPercentile
    /\ crashed = Running
    /\ calls = [k \in Keys |-> <<1>>]
    /\ callers = [k \in Keys |-> {<<1, IF k = "a" THEN "counter" ELSE "gauge">>}]
    /\ lastSet = [k \in Keys |-> 1]
    /\ snap = [c \in 1..MaxTicks |-> << >>]
    /\ qcyc = <<>>
    /\ wcyc = 0

\* The clients and the flush loop, while the worker is not scheduled.
NextFlush ==
    \/ \E t \in Clients : ReadLine(t, MaxSets, GoodLines)
    \/ \E t \in Clients : SetBegin(t)
    \/ \E t \in Clients : SetEnd(t)
    \/ FlushTick
    \/ FlushNext
    \/ FlushSend
    \/ FlushEnd
    \/ MapRaceFatal

SpecFlush == InitFlush /\ [][NextFlush]_vars

(***************************************************************************)
(* The claims.                                                             *)
(***************************************************************************)
\* A Set on key k has read the map and not yet stored its record.
SetInProgress(k) == \E t \in Tasks : pc[t] = "store" /\ args[t].key = k

\* The metric types of the Set calls on k.
CallKinds(k) == {c[2] : c \in callers[k]}
\* The tasks that called Set on k.
CallTasks(k) == {c[1] : c \in callers[k]}

\* C1: when N Set(k, counter, 1) calls, from any tasks in any interleaving,
\* are the only calls on k and all have returned, with no flush, the record
\* of k has lastValue = N and totalHits = N.
C1_NoLostUpdate ==
    \A k \in Keys :
        (/\ ticks = 0
         /\ ~SetInProgress(k)
         /\ calls[k] # <<>>
         /\ CallKinds(k) = {"counter"}
         /\ \A i \in DOMAIN calls[k] : calls[k][i] = 1)
        => /\ k \in DOMAIN metrics
           /\ metrics[k].lastValue = Len(calls[k])
           /\ metrics[k].totalHits = Len(calls[k])

\* C1's case: every task has incremented the same counter by 1.
C1_Witness ==
    \E k \in Keys :
        /\ ticks = 0
        /\ ~SetInProgress(k)
        /\ CallTasks(k) = Tasks
        /\ CallKinds(k) = {"counter"}
        /\ \A i \in DOMAIN calls[k] : calls[k][i] = 1
        /\ metrics[k].lastValue = NumTasks

\* C2: when the worker is about to delete the record of a key, no Set on
\* that key has taken effect since the flush loop captured the snapshot the
\* worker holds.
C2_NoSetBetweenCaptureAndDelete ==
    (wpc = "delete" /\ ShouldDelete(wmetric) /\ wmetric.key \in DOMAIN metrics)
    => wmetric.key \in DOMAIN snap[wcyc]

\* Every snapshot flush cycle c enqueued has been taken off the queue: its
\* range loop has ended and none of its snapshots is in graphitePipeline.
Dequeued(c) ==
    /\ c <= ticks
    /\ c < ticks \/ fpc = "tick"
    /\ \A i \in DOMAIN qcyc : qcyc[i] # c

\* Flush cycle c has run to completion: every snapshot it enqueued has been
\* taken off the queue, and the worker has come back to its receive after
\* the last of them.
Completed(c) == Dequeued(c) /\ wcyc # c

\* C3 (as stated): once every snapshot a flush cycle enqueued has been taken
\* off the export queue, every key it captured as a counter or a timer, and
\* that received no Set since, is absent from the store.
C3_AbsentOnceDequeued ==
    \A c \in 1..MaxTicks :
        Dequeued(c) =>
            \A k \in DOMAIN snap[c] :
                snap[c][k].metricType # "gauge" => k \notin DOMAIN metrics

\* C3 (amended): once every snapshot a flush cycle enqueued has been taken
\* off the export queue and the worker has finished with the last of them,
\* every key the cycle captured as a counter or a timer, and that received
\* no Set since, is absent from the store.
C3_CounterTimerAbsent ==
    \A c \in 1..MaxTicks :
        Completed(c) =>
            \A k \in DOMAIN snap[c] :
                snap[c][k].metricType # "gauge" => k \notin DOMAIN metrics

\* C3's case: a completed cycle captured a counter or timer that received no
\* Set since, and the worker has deleted it.
C3_Witness ==
    \E c \in 1..MaxTicks :
        /\ Completed(c)
        /\ \E k \in DOMAIN snap[c] :
            /\ snap[c][k].metricType # "gauge"
            /\ k \notin DOMAIN metrics

\* C4: after a flush cycle has run to completion, every key it captured as
\* a gauge, and that received no Set since, is in the store with the
\* lastValue it had, totalHits = 0 and no samples.
C4_GaugeReset ==
    \A c \in 1..MaxTicks :
        Completed(c) =>
            \A k \in DOMAIN snap[c] :
                snap[c][k].metricType = "gauge" =>
                    /\ k \in DOMAIN metrics
                    /\ metrics[k].lastValue = snap[c][k].lastValue
                    /\ metrics[k].totalHits = 0
                    /\ metrics[k].allValues = <<>>

\* The flush loop captures the record of a key.
Captured == fpc = "range" /\ fpc' = "send"

\* C5: every snapshot of a gauge that a flush cycle captures, while no Set
\* on its key is under way, has as its lastValue the value of the most
\* recent Set on that key.
C5_GaugeReportsLastSet ==
    [][(Captured /\ fmetric'.metricType = "gauge"
                 /\ ~SetInProgress(fmetric'.key))
        => fmetric'.lastValue = lastSet[fmetric'.key]]_vars

\* C6: every snapshot of a counter or timer that a flush cycle captures
\* follows a Set on its key applied after the previous capture of that key.
C6_NoRepeatedExport ==
    [][(Captured /\ fmetric'.metricType # "gauge")
        => \A c \in 1..MaxTicks : fmetric'.key \notin DOMAIN snap[c]]_vars

\* C7: after n >= 1 Set calls on a new key, all of one type and all
\* returned, with no flush, the record has that type, totalHits = n, the
\* values of the calls in order as allValues, and as lastValue their sum
\* for a counter and the last of them for a gauge or a timer.
C7_SetSequence ==
    \A k \in Keys : \A ty \in {"gauge", "counter", "timer"} :
        (/\ ticks = 0
         /\ ~SetInProgress(k)
         /\ calls[k] # <<>>
         /\ CallKinds(k) = {ty})
        => /\ k \in DOMAIN metrics
           /\ metrics[k].key = k
           /\ metrics[k].metricType = ty
           /\ metrics[k].totalHits = Len(calls[k])
           /\ metrics[k].allValues = calls[k]
           /\ metrics[k].lastValue =
                IF ty = "counter" THEN SumSeq(calls[k])
                ELSE calls[k][Len(calls[k])]

\* C7's case: as many Sets of one counter as there are lines, one of them
\* negative, and the sum is not the last value.
C7_Witness ==
    \E k \in Keys :
        /\ ticks = 0
        /\ ~SetInProgress(k)
        /\ CallKinds(k) = {"counter"}
        /\ Len(calls[k]) = MaxLines
        /\ \E i \in DOMAIN calls[k] : calls[k][i] < 0
        /\ metrics[k].lastValue = SumSeq(calls[k])
        /\ metrics[k].lastValue # calls[k][MaxLines]

\* C8: for every timer snapshot with totalHits >= 1 that sendToGraphite is
\* given, numInThreshold is at least 1 and at most totalHits.
C8_NumInThresholdInRange ==
    \A m \in BagToSet(exports) :
        (m.metricType = "timer" /\ m.totalHits >= 1)
        => /\ 1 <= NumInThreshold(percentile, m.totalHits)
           /\ NumInThreshold(percentile, m.totalHits) <= m.totalHits

\* The values of a sequence as a bag, and the n smallest of them in order.
Smallest(vals, n) == SubSeq(Sorted(vals), 1, n)
MinOf(vals) == CHOOSE v \in {vals[i] : i \in DOMAIN vals} :
                  \A i \in DOMAIN vals : v <= vals[i]
MaxOf(vals) == CHOOSE v \in {vals[i] : i \in DOMAIN vals} :
                  \A i \in DOMAIN vals : v >= vals[i]

\* The value sendToGraphite sends under the name <<"stats.timers", key, ...>>.
Emitted(points, gkey, v) ==
    \E i \in DOMAIN points : points[i].gkey = gkey /\ points[i].value = v

\* C9: for every timer snapshot with samples that sendToGraphite is given,
\* it emits min_value, max_value, avg_value = sum / hitCount, and, with
\* n = hitCount - floor(((100 - P) / 100) * hitCount + 0.5), upper_P = the
\* n-th smallest sample, sum_P = the sum of the n smallest, mean_P = sum_P / n.
C9_TimerStatistics ==
    \A m \in BagToSet(exports) :
        (m.metricType = "timer" /\ m.allValues # <<>>) =>
            LET r == SendToGraphitePoints(m, percentile)
                n == m.totalHits - (((100 - percentile) * m.totalHits + 50) \div 100)
                low == Smallest(m.allValues, n)
                name(stat) == <<"stats.timers", m.key, stat>>
                nameP(stat) == <<"stats.timers", m.key, stat, percentile>>
            IN  /\ ~r.panics
                /\ Emitted(r.points, name("min_value"), Num(MinOf(m.allValues)))
                /\ Emitted(r.points, name("max_value"), Num(MaxOf(m.allValues)))
                /\ Emitted(r.points, name("avg_value"),
                           Quot(SumSeq(m.allValues), m.totalHits))
                /\ Emitted(r.points, nameP("upper"), Num(low[n]))
                /\ Emitted(r.points, nameP("sum"), Num(SumSeq(low)))
                /\ Emitted(r.points, nameP("mean"), Quot(SumSeq(low), n))

\* C10: a failed export never leaves metrics in the queue that the worker
\* can no longer receive: the process outlives every failure of an export.
C10_ExportFailureIsolated ==
    ~(crashed = Panicked /\ queue # <<>>)


\* Flush cycle c has a snapshot in graphitePipeline.
Queued(c) == \E i \in DOMAIN qcyc : qcyc[i] = c

\* C11: the export queue never holds more than MAXREQS snapshots, the flush
\* loop leaves its send only by appending its snapshot to the queue, and
\* every snapshot in the queue is eventually received by the worker.
C11_BoundedQueueNoDrop ==
    /\ [](Len(queue) <= MAXREQS)
    /\ [][(fpc = "send" /\ fpc' # "send") => queue' = Append(queue, fmetric)]_vars
    /\ \A c \in 1..MaxTicks : Queued(c) ~> ~Queued(c)


\* C12: a session ends only on a read error of its connection: no step in
\* which handleRequest reads a line ends the session, whatever the line.
C12_SessionSurvivesRejectedLine ==
    [][\A t \in Tasks :
         (pc[t] = "read" /\ pc'[t] = "closed") => nlines' = nlines]_vars

\* C13: Set is called only for an accepted line: a line of a known type
\* whose value parsed as a number.
C13_RejectedLineNotStored ==
    \A t \in Tasks :
        pc[t] \in {"lock", "store"} =>
            /\ args[t].metricType \in {"gauge", "counter", "timer"}
            /\ ~args[t].err


\* C14: in no state is one goroutine about to write or delete a map entry
\* while another is using the map without the exclusion of the store lock.
C14_MapAccessUnderLock == ~MapRace


\* A Set takes effect: it stores its record in the map.
SetApplied == \E t \in Tasks : pc[t] = "store" /\ pc'[t] # "store"

\* The running flush cycle has captured a key and has yet to capture
\* another: one that was in the map when the range loop began.
BetweenCaptures == fpc \in {"range", "send"} /\ fvisited # {} /\ fmust # {}

\* C15: no Set takes effect between the capture of one key and the capture
\* of another key by the same flush cycle.
C15_FlushIsOneInstant == [][SetApplied => ~BetweenCaptures]_vars


\* C17: every record in the store has as many samples as hits.
C17_HitsEqualSamples ==
    \A k \in DOMAIN metrics :
        metrics[k].totalHits = Len(metrics[k].allValues)

\* C17's case: a record that a flush cycle has captured and the worker has
\* handled is in the store with two hits.
C17_Witness ==
    \E k \in DOMAIN metrics :
        /\ Completed(1)
        /\ metrics[k].totalHits = 2
        /\ Len(metrics[k].allValues) = 2


\* C18: a Set on an existing key that carries another type than the record
\* has leaves the record's type and its lastValue as they were.
C18_NoKindMixing ==
    [][\A t \in Tasks :
         (/\ pc[t] = "store" /\ pc'[t] # "store"
          /\ args[t].key \in DOMAIN metrics
          /\ args[t].metricType # metrics[args[t].key].metricType)
         => /\ metrics'[args[t].key].metricType =
                    metrics[args[t].key].metricType
            /\ metrics'[args[t].key].lastValue =
                    metrics[args[t].key].lastValue]_vars

\* C19: the snapshots one flush cycle has put in the queue carry the same
\* flushTime.
C19_OneTimestampPerCycle ==
    \A i, j \in DOMAIN queue :
        qcyc[i] = qcyc[j] => queue[i].flushTime = queue[j].flushTime


\* C20: the store lock is held only by a goroutine inside Set, never by one
\* that waits on the export queue or on Graphite, and every Set that waits
\* for the lock eventually takes it and returns.
C20_SetNeverStarved ==
    /\ [](mu # NoTask => pc[mu] = "store")
    /\ \A t \in Tasks : (pc[t] = "lock") ~> (pc[t] = "read")


\* A sendToGraphite goroutine runs.
ExportRuns == BagCardinality(exports') < BagCardinality(exports)

\* C16: a snapshot handed to the export pipeline is isolated.  A Set changes
\* no snapshot in the queue or under export, and a run of sendToGraphite,
\* with its sort, changes no record in the store, no snapshot in the queue
\* and no snapshot of another sendToGraphite.
C16_SnapshotIsolated ==
    [][/\ SetApplied => (queue' = queue /\ exports' = exports)
       /\ ExportRuns => /\ metrics' = metrics
                        /\ queue' = queue
                        /\ exports' \sqsubseteq exports]_vars

=============================================================================
